---- MODULE Spec2Model ----
(***************************************************************************)
(* A model of the OT grammar for morphological exponence (aba.py) and of   *)
(* the two concrete feature systems NForm (nform.py) and VForm (vform.py). *)
(*                                                                         *)
(* A Python frozenset of tokens is a TLA+ set of strings, a Python list is *)
(* a TLA+ sequence, a MorphForm instance is a record holding its class     *)
(* name and its attributes.  Every function of the source is an operator   *)
(* of the same name; the functions under verification are called by an     *)
(* action that stores what they return (ret) and whether they raised       *)
(* (raised).                                                               *)
(***************************************************************************)
EXTENDS Integers, Sequences, FiniteSets, TLC

VARIABLES op, pc, form1, form2, list_of_forms, partition, constr, features,
          domain, paths_traversed, ret, raised,
          form_class, init_argv, rank, rankings, cands, applied, part2,
          ur_forms, stop,
          list_values_to_exclude, sforms, vocab_counter, success_pairs

\* the arguments and locals of the constructors (form_class, init_argv), of Eval
\* (rank, cands: the candidates so far, applied: the constraints called so
\* far), of the partition functions (part2, ur_forms) and of the search
\* (rankings, stop)
\* the remaining arguments and the locals of findVocabularyRankingPairs
findVars == <<list_values_to_exclude, sforms, vocab_counter, success_pairs>>

evalVars == <<form_class, init_argv, rank, rankings, cands, applied, part2,
              ur_forms, stop, findVars>>

vars == <<op, pc, form1, form2, list_of_forms, partition, constr, features,
          domain, paths_traversed, ret, raised, evalVars>>

\* Python's None
None == "None"

\* the variables of findVars in a call that has none of them
NoFindVars ==
    /\ list_values_to_exclude = {}
    /\ sforms = <<>>
    /\ vocab_counter = 1
    /\ success_pairs = <<>>

\* the variables of evalVars in a call that has none of them
NoEvalVars ==
    /\ NoFindVars
    /\ form_class = None
    /\ init_argv = <<>>
    /\ rank = <<>>
    /\ rankings = <<>>
    /\ cands = <<>>
    /\ applied = 0
    /\ part2 = <<>>
    /\ ur_forms = <<>>
    /\ stop = FALSE

\* ------------------------------------------------------------------------
\* Bounds of the checked input spaces

\* longest list_of_forms handed to getPaths
MaxPool == 2

\* longest cell handed to isBadCell
MaxCell == 3

\* longest cell of a partition handed to isAba
MaxAbaCell == 2

\* most cells of a partition handed to isAba
MaxCells == 2

\* longest candidate list handed to DepOrMax
MaxCand == 3

\* longest ranking handed to otEval
MaxRank == 2

\* longest candidate list handed to otEval
MaxEvalCand == 3

\* longest list of underlying forms handed to getWinnerPartition
MaxUr == 3

\* longest list of surface forms handed to getWinnerPartition
MaxSr == 2

\* most forms in a partition handed to areSamePartitions
MaxPartForms == 3

\* most forms in a target partition handed to findVocabularyRankingPairs
MaxTargetForms == 2

\* longest list of rankings handed to findVocabularyRankingPairs
MaxRankings == 2

\* most arguments handed to a constructor
MaxArgs == 4

\* ------------------------------------------------------------------------
\* Generic helpers

\* all sequences over S of length 0..n
SeqsUpTo(S, n) == UNION {[1..k -> S] : k \in 0..n}

\* the elements of a sequence
Range(s) == {s[i] : i \in 1..Len(s)}

\* all sequences over S of length 0..n that hold no member twice
NoDupSeqsUpTo(S, n) ==
    {s \in SeqsUpTo(S, n) : \A i, j \in 1..Len(s) : s[i] = s[j] => i = j}

\* all lists that hold every member of S exactly once
Orderings(S) ==
    {s \in [1..Cardinality(S) -> S] : \A x \in S : \E i \in DOMAIN s : s[i] = x}

\* the cells cut out of the list flat, a new cell starting after each
\* index in cuts
RECURSIVE cutFrom(_, _, _, _)
cutFrom(flat, cuts, i, cell) ==
    IF i > Len(flat) THEN (IF cell = <<>> THEN <<>> ELSE <<cell>>)
    ELSE IF (i - 1) \in cuts /\ cell # <<>>
         THEN <<cell>> \o cutFrom(flat, cuts, i + 1, <<flat[i]>>)
         ELSE cutFrom(flat, cuts, i + 1, Append(cell, flat[i]))

\* the lists of non-empty lists of members of S with at most n members
\* in all
ListsOfCells(S, n) ==
    {cutFrom(flat, cuts, 1, <<>>) :
        flat \in SeqsUpTo(S, n), cuts \in SUBSET (1..(n - 1))}

\* ------------------------------------------------------------------------
\* aba.py: wellFormedArgs(group_vals, *argv); argv is the tuple of the
\* positional arguments after the first

wellFormedArgs(group_vals, argv) ==
    IF Len(argv) = 1 THEN TRUE
    ELSE ~ \E i \in 1..Len(argv), j \in 1..Len(argv), k \in 1..Len(group_vals) :
              /\ argv[i] # "zero"
              /\ argv[j] # "zero"
              /\ argv[i] # argv[j]
              /\ argv[i] \in group_vals[k]
              /\ argv[j] \in group_vals[k]

\* ------------------------------------------------------------------------
\* nform.py: class NForm

NForm_string_to_val_dict ==
    [zero |-> {}, sg |-> {"sg"}, pl |-> {"sg", "pl"},
     nom |-> {"nom"}, acc |-> {"nom", "acc"}, dat |-> {"nom", "acc", "dat"},
     neu |-> {"neu"}, mas |-> {"neu", "mas"}, fem |-> {"neu", "mas", "fem"}]

NForm_all_values ==
    {"zero", "sg", "pl", "nom", "acc", "dat", "neu", "mas", "fem"}

\* special_imm_contains_dict = {} : a function with an empty domain
NForm_special_imm_contains_dict == [v \in {} |-> <<>>]

NForm_feature_val_dict ==
    [Number |-> {"zero", "sg", "pl"},
     Case   |-> {"zero", "nom", "acc", "dat"},
     Gender |-> {"zero", "neu", "mas", "fem"}]

\* the keys of feature_val_dict in insertion order
NForm_features == <<"Number", "Case", "Gender">>

NForm_grouped_values ==
    [i \in 1..Len(NForm_features) |-> NForm_feature_val_dict[NForm_features[i]]]

\* NForm.__init__ raises
NFormRaises(argv) ==
    \/ Len(argv) > 3
    \/ ~ \A i \in 1..Len(argv) : argv[i] \in NForm_all_values
    \/ ~ wellFormedArgs(NForm_grouped_values, <<argv>>)

\* the first non-zero token of argv in the value set of one feature, as a
\* value; the empty set when there is none
FirstValue(argv, tokens, dict) ==
    LET sel == SelectSeq(argv, LAMBDA v : v \in tokens /\ v # "zero")
    IN  IF Len(sel) > 0 THEN dict[sel[1]] ELSE {}

\* NForm.__init__ else-branch: the constructed object
NForm(argv) ==
    [type   |-> "NForm",
     number |-> FirstValue(argv, NForm_feature_val_dict.Number,
                           NForm_string_to_val_dict),
     case   |-> FirstValue(argv, NForm_feature_val_dict.Case,
                           NForm_string_to_val_dict),
     gender |-> FirstValue(argv, NForm_feature_val_dict.Gender,
                           NForm_string_to_val_dict)]

\* ------------------------------------------------------------------------
\* vform.py: class VForm

VForm_string_to_val_dict ==
    [zero |-> {}, part |-> {"part"}, auth |-> {"part", "auth"},
     addr |-> {"part", "addr"}, pl |-> {"pl"}]

VForm_all_values == {"zero", "pl", "part", "auth", "addr"}

VForm_feature_val_dict ==
    [Person |-> {"zero", "part", "auth", "addr"},
     Number |-> {"zero", "pl"}]

VForm_features == <<"Person", "Number">>

VForm_grouped_values ==
    [i \in 1..Len(VForm_features) |-> VForm_feature_val_dict[VForm_features[i]]]

VForm_special_imm_contains_dict ==
    [v \in {{"part", "auth"}, {"part", "addr"}} |-> <<{}>>]

\* VForm.__init__ raises; wellFormedArgs receives the tuple as group_vals
\* and no further argument
VFormRaises(argv) ==
    \/ Len(argv) > 2
    \/ ~ \A i \in 1..Len(argv) : argv[i] \in VForm_all_values
    \/ ~ wellFormedArgs(argv, <<>>)

VForm(argv) ==
    [type   |-> "VForm",
     number |-> FirstValue(argv, VForm_feature_val_dict.Number,
                           VForm_string_to_val_dict),
     person |-> FirstValue(argv, VForm_feature_val_dict.Person,
                           VForm_string_to_val_dict)]

\* ------------------------------------------------------------------------
\* aba.py: class MorphForm

\* NForm.valuesList / VForm.valuesList
valuesList(self) ==
    IF self.type = "NForm" THEN <<self.number, self.case, self.gender>>
    ELSE <<self.number, self.person>>

getValues(self) == valuesList(self)

\* NForm.__getitem__ / VForm.__getitem__
getitem(self, key) ==
    IF self.type = "NForm"
    THEN CASE key = "Case" -> self.case
           [] key = "Number" -> self.number
           [] key = "Gender" -> self.gender
           [] OTHER -> None
    ELSE CASE key = "Number" -> self.number
           [] key = "Person" -> self.person
           [] OTHER -> None

\* MorphForm.__eq__ (the None it returns for two classes is falsy)
eq(self, other) ==
    IF self.type = other.type THEN getValues(self) = getValues(other)
    ELSE FALSE

\* zip(xs, ys) stops at the shorter list
zip(xs, ys) ==
    [i \in 1..(IF Len(xs) < Len(ys) THEN Len(xs) ELSE Len(ys)) |-> <<xs[i], ys[i]>>]

\* MorphForm.contains raises: the elif compares type(self) with type(self)
containsRaises(self, other) ==
    /\ ~ eq(self, other)
    /\ ~ (self.type = self.type)

\* contains with issuperset replaced by a proper-superset test
contains_properSuperset(self, other) ==
    IF eq(self, other) THEN FALSE
    ELSE LET z == zip(getValues(self), getValues(other))
         IN  \A i \in 1..Len(z) : z[i][2] \subseteq z[i][1] /\ z[i][2] # z[i][1]

\* contains with all(...) over the slots replaced by any(...)
contains_anySlot(self, other) ==
    IF eq(self, other) THEN FALSE
    ELSE LET z == zip(getValues(self), getValues(other))
         IN  \E i \in 1..Len(z) : z[i][2] \subseteq z[i][1]

\* contains without the test for identical forms
contains_noEqTest(self, other) ==
    LET z == zip(getValues(self), getValues(other))
    IN  \A i \in 1..Len(z) : z[i][2] \subseteq z[i][1]

\* MorphForm.contains returns
contains(self, other) ==
    IF eq(self, other) THEN FALSE
    ELSE LET z == zip(getValues(self), getValues(other))
         IN  \A i \in 1..Len(z) : z[i][2] \subseteq z[i][1]

\* MorphForm.__lt__
lt(self, other) == contains(other, self)

\* MorphForm.containment
containment(self, other) == contains(self, other) \/ contains(other, self)

\* NForm/VForm.specialImmediateContainsValue
specialImmediateContainsValue(self, value) ==
    LET dic == IF self.type = "NForm" THEN NForm_special_imm_contains_dict
               ELSE VForm_special_imm_contains_dict
    IN  IF Cardinality(DOMAIN dic) = 0 THEN <<>>
        ELSE IF value \in DOMAIN dic THEN dic[value]
        ELSE <<>>

getSpecialImmediateContainsValue(self, value) ==
    specialImmediateContainsValue(self, value)

\* the body of the for loop without the look-up of the special cases
diffOf_noOverride(self, t) == Cardinality(t[1] \ t[2])

\* the body of the for loop of nonImmediateContains: what one pair of
\* values adds to diffs
diffOf(self, t) ==
    IF \E i \in 1..Len(getSpecialImmediateContainsValue(self, t[1])) :
          getSpecialImmediateContainsValue(self, t[1])[i] = t[2]
    THEN 1
    ELSE Cardinality(t[1] \ t[2])

RECURSIVE sumDiffs(_, _, _)
sumDiffs(self, z, i) ==
    IF i > Len(z) THEN 0 ELSE diffOf(self, z[i]) + sumDiffs(self, z, i + 1)

\* MorphForm.nonImmediateContains
nonImmediateContains(self, other) ==
    IF ~ contains(self, other) THEN FALSE
    ELSE sumDiffs(self, zip(getValues(self), getValues(other)), 1) > 1

\* MorphForm.nonImmediateContainment
nonImmediateContainment(self, other) ==
    nonImmediateContains(self, other) \/ nonImmediateContains(other, self)

\* MorphForm.immediateContains
immediateContains(self, other) ==
    contains(self, other) /\ ~ nonImmediateContains(self, other)

\* MorphForm.immediateContainment
immediateContainment(self, other) ==
    immediateContains(self, other) \/ immediateContains(other, self)

\* MorphForm.isBetween
isBetween(self, f1, f2) ==
    \/ (contains(self, f1) /\ contains(f2, self))
    \/ (contains(self, f2) /\ contains(f1, self))

\* ------------------------------------------------------------------------
\* aba.py: generateForms; the result is the set of the forms of the list
\* (the order of the list is the iteration order of the value sets)

\* type_of_form(*f)
New(type_of_form, argv) ==
    IF type_of_form = "NForm" THEN NForm(argv) ELSE VForm(argv)

NewRaises(type_of_form, argv) ==
    IF type_of_form = "NForm" THEN NFormRaises(argv) ELSE VFormRaises(argv)

\* it.product(*dic.values())
all_args(type_of_form) ==
    IF type_of_form = "NForm"
    THEN {<<n, c, g>> : n \in NForm_feature_val_dict.Number,
                        c \in NForm_feature_val_dict.Case,
                        g \in NForm_feature_val_dict.Gender}
    ELSE {<<p, n>> : p \in VForm_feature_val_dict.Person,
                     n \in VForm_feature_val_dict.Number}

generateForms(type_of_form, values) ==
    LET args == {a \in all_args(type_of_form) : Range(a) \cap values = {}}
    IN  {New(type_of_form, a) : a \in args}

\* the universes of forms the inputs are drawn from
AllNForms == generateForms("NForm", {})

AllVForms == generateForms("VForm", {})

AllForms == AllNForms \cup AllVForms

\* Number x Case with Case in {zero, nom, acc}, no Gender
SmallNForms == generateForms("NForm", {"dat", "neu", "mas", "fem"})

\* Number x Case with Case in {zero, nom}, no Gender
TinyNForms == generateForms("NForm", {"acc", "dat", "neu", "mas", "fem"})

\* Person x Number with Person in {zero, part}
SmallVForms == generateForms("VForm", {"auth", "addr"})

\* ------------------------------------------------------------------------
\* aba.py: getBottom, getTop over MorphForms ordered by __lt__

\* min(forms): a later item replaces the current one when item < current
RECURSIVE pymin(_, _, _)
pymin(forms, i, cur) ==
    IF i > Len(forms) THEN cur
    ELSE pymin(forms, i + 1, IF lt(forms[i], cur) THEN forms[i] ELSE cur)

\* max(forms): item > current is answered by the reflected current < item
RECURSIVE pymax(_, _, _)
pymax(forms, i, cur) ==
    IF i > Len(forms) THEN cur
    ELSE pymax(forms, i + 1, IF lt(cur, forms[i]) THEN forms[i] ELSE cur)

getBottom(forms) ==
    SelectSeq(forms, LAMBDA x : eq(x, pymin(forms, 2, forms[1])))

getTop(forms) ==
    SelectSeq(forms, LAMBDA x : eq(x, pymax(forms, 2, forms[1])))

\* ------------------------------------------------------------------------
\* aba.py: getPaths

\* the members of the set that list(set(...)) turns into the list domain
domainSet(f1, f2, forms) ==
    {forms[i] : i \in {j \in 1..Len(forms) : isBetween(forms[j], f1, f2)}}
        \cup {f1, f2}

\* bottom and top of getPaths
bottomOf(f1, f2) == getBottom(<<f1, f2>>)[1]

topOf(f1, f2) == getTop(<<f1, f2>>)[1]

\* getExtensions(path, top, forms), nested in getPaths
getExtensions(path, top, forms) ==
    LET last == path[Len(path)]
        exts == SelectSeq(forms, LAMBDA f : immediateContains(f, last)
                                             /\ contains(top, f))
    IN  [i \in 1..Len(exts) |-> Append(path, exts[i])]

\* the for loop of one iteration of the while loop: the list extended
RECURSIVE extendedFrom(_, _, _, _)
extendedFrom(paths, i, top, dom) ==
    IF i > Len(paths) THEN <<>>
    ELSE (IF contains(top, paths[i][Len(paths[i])])
          THEN getExtensions(paths[i], top, dom)
          ELSE <<>>) \o extendedFrom(paths, i + 1, top, dom)

\* the while loop: paths_traversed at the break
RECURSIVE whileLoop(_, _, _)
whileLoop(paths, top, dom) ==
    LET extended == extendedFrom(paths, 1, top, dom)
    IN  IF extended = paths \/ Len(extended) = 0 THEN paths
        ELSE whileLoop(extended, top, dom)

\* the return statement after the while loop
pathsReturned(paths, bottom) ==
    IF paths = << <<bottom>> >> THEN <<>>
    ELSE [i \in 1..Len(paths) |-> SubSeq(paths[i], 2, Len(paths[i]))]

\* getPaths once list(set(...)) has produced the list dom
getPathsOver(f1, f2, dom) ==
    IF ~ containment(f1, f2) THEN <<>>
    ELSE IF immediateContainment(f1, f2) THEN <<bottomOf(f1, f2), topOf(f1, f2)>>
    ELSE pathsReturned(whileLoop(<< <<bottomOf(f1, f2)>> >>, topOf(f1, f2), dom),
                       bottomOf(f1, f2))

\* getPaths as a function call; the order of list(set(...)) is some fixed
\* order of the set
getPaths(f1, f2, forms) ==
    getPathsOver(f1, f2, CHOOSE d \in Orderings(domainSet(f1, f2, forms)) : TRUE)

\* ------------------------------------------------------------------------
\* aba.py: isBadCell, isAba

\* containment_pairs in the order the two nested loops append them, as
\* pairs of indices into cell
RECURSIVE containmentPairsFrom(_, _, _)
containmentPairsFrom(cell, i, j) ==
    IF i > Len(cell) THEN <<>>
    ELSE IF j > Len(cell) THEN containmentPairsFrom(cell, i + 1, 1)
    ELSE (IF nonImmediateContains(cell[j], cell[i]) THEN << <<i, j>> >>
          ELSE <<>>) \o containmentPairsFrom(cell, i, j + 1)

containment_pairs(cell) == containmentPairsFrom(cell, 1, 1)

\* isBadCell returning inside the second loop whatever the first pair gives
isBadCell_firstPairOnly(cell) ==
    LET pairs == containment_pairs(cell)
    IN  /\ Len(pairs) > 0
        /\ Len(getPaths(cell[pairs[1][1]], cell[pairs[1][2]], cell)) = 0

\* isBadCell: True at the first pair without paths, False after the loop
isBadCell(cell) ==
    LET pairs == containment_pairs(cell)
    IN  \E k \in 1..Len(pairs) :
           Len(getPaths(cell[pairs[k][1]], cell[pairs[k][2]], cell)) = 0

\* isAba without the break: the last cell with more than one member decides
RECURSIVE isAbaFrom_noBreak(_, _, _)
isAbaFrom_noBreak(part, i, is_aba) ==
    IF i > Len(part) THEN is_aba
    ELSE IF Len(part[i]) > 1
         THEN isAbaFrom_noBreak(part, i + 1, isBadCell(part[i]))
         ELSE isAbaFrom_noBreak(part, i + 1, is_aba)

\* the for loop of isAba from cell i on, is_aba being the value so far
RECURSIVE isAbaFrom(_, _, _)
isAbaFrom(part, i, is_aba) ==
    IF i > Len(part) THEN is_aba
    ELSE IF Len(part[i]) > 1 THEN isBadCell(part[i])
         ELSE isAbaFrom(part, i + 1, is_aba)

isAba(part) == isAbaFrom(part, 1, FALSE)

\* ------------------------------------------------------------------------
\* aba.py: constraints

DepSubroutine(ur_value, sr_value) ==
    Cardinality((ur_value \cup sr_value) \ ur_value)

MaxSubroutine(ur_value, sr_value) ==
    Cardinality((ur_value \cup sr_value) \ sr_value)

\* constr(ur_val, sr_val), constr being DepSubroutine or MaxSubroutine
applyConstr(c, ur_value, sr_value) ==
    IF c = "DepSubroutine" THEN DepSubroutine(ur_value, sr_value)
    ELSE MaxSubroutine(ur_value, sr_value)

\* sum(form_score) of the inner loop of DepOrMax over features[i..]
RECURSIVE totalScoreFrom(_, _, _, _, _)
totalScoreFrom(c, feats, ur, form, i) ==
    IF i > Len(feats) THEN 0
    ELSE applyConstr(c, getitem(ur, feats[i]), getitem(form, feats[i]))
             + totalScoreFrom(c, feats, ur, form, i + 1)

\* best_so_far is <<>> for None and <<n>> for the integer n

\* the loop of DepOrMax with a tie treated like a loss
RECURSIVE DepOrMaxFrom_tieLoses(_, _, _, _, _, _, _)
DepOrMaxFrom_tieLoses(c, feats, ur, candidates, i, best_so_far, winners) ==
    IF i > Len(candidates) THEN winners
    ELSE LET form == candidates[i]
             total_score == totalScoreFrom(c, feats, ur, form, 1)
         IN  IF best_so_far = <<>>
             THEN DepOrMaxFrom_tieLoses(c, feats, ur, candidates, i + 1,
                                        <<total_score>>, Append(winners, form))
             ELSE IF total_score >= best_so_far[1]
             THEN DepOrMaxFrom_tieLoses(c, feats, ur, candidates, i + 1,
                                        best_so_far, winners)
             ELSE DepOrMaxFrom_tieLoses(c, feats, ur, candidates, i + 1,
                                        <<total_score>>, <<form>>)

\* the loop of DepOrMax from candidate i on
RECURSIVE DepOrMaxFrom(_, _, _, _, _, _, _)
DepOrMaxFrom(c, feats, ur, candidates, i, best_so_far, winners) ==
    IF i > Len(candidates) THEN winners
    ELSE LET form == candidates[i]
             total_score == totalScoreFrom(c, feats, ur, form, 1)
         IN  IF best_so_far = <<>>
             THEN DepOrMaxFrom(c, feats, ur, candidates, i + 1,
                               <<total_score>>, Append(winners, form))
             ELSE IF total_score > best_so_far[1]
             THEN DepOrMaxFrom(c, feats, ur, candidates, i + 1,
                               best_so_far, winners)
             ELSE IF total_score = best_so_far[1]
             THEN DepOrMaxFrom(c, feats, ur, candidates, i + 1,
                               best_so_far, Append(winners, form))
             ELSE DepOrMaxFrom(c, feats, ur, candidates, i + 1,
                               <<total_score>>, <<form>>)

DepOrMax(c, feats, ur, candidates) ==
    DepOrMaxFrom(c, feats, ur, candidates, 1, <<>>, <<>>)

\* ------------------------------------------------------------------------
\* nform.py, vform.py: the constraints, each DepOrMax with its first two
\* arguments fixed; a constraint is its function name

constraintArgs(name) ==
    CASE name = "MaxNum"     -> <<"MaxSubroutine", <<"Number">> >>
      [] name = "DepNum"     -> <<"DepSubroutine", <<"Number">> >>
      [] name = "MaxCase"    -> <<"MaxSubroutine", <<"Case">> >>
      [] name = "DepCase"    -> <<"DepSubroutine", <<"Case">> >>
      [] name = "MaxGender"  -> <<"MaxSubroutine", <<"Gender">> >>
      [] name = "DepGender"  -> <<"DepSubroutine", <<"Gender">> >>
      [] name = "MaxNumCase" -> <<"MaxSubroutine", <<"Number", "Case">> >>
      [] name = "DepNumCase" -> <<"DepSubroutine", <<"Number", "Case">> >>
      [] name = "MaxPers"    -> <<"MaxSubroutine", <<"Person">> >>
      [] name = "DepPers"    -> <<"DepSubroutine", <<"Person">> >>

\* constraint(ur, sr)
applyConstraint(name, ur, sr) ==
    DepOrMax(constraintArgs(name)[1], constraintArgs(name)[2], ur, sr)

nform_constraints ==
    <<"MaxCase", "DepCase", "DepNum", "MaxNum", "DepGender", "MaxGender">>

vform_constraints == <<"MaxPers", "DepPers", "DepNum", "MaxNum">>

\* four of the rankings of vform.py's vform_rankings: vform_constraints
\* and its rotations, each constraint ranked highest by one of them
RankingsUsed ==
    {[i \in 1..Len(vform_constraints) |->
         vform_constraints[((i + k - 1) % Len(vform_constraints)) + 1]] :
       k \in 0..(Len(vform_constraints) - 1)}

RECURSIVE otEvalFrom(_, _, _, _)
otEvalFrom(ranking, i, ur_form, candidates) ==
    IF i > Len(ranking) THEN candidates
    ELSE IF Len(candidates) > 1
         THEN otEvalFrom(ranking, i + 1, ur_form,
                         applyConstraint(ranking[i], ur_form, candidates))
         ELSE candidates

otEval(ranking, ur_form, candidates) ==
    otEvalFrom(ranking, 1, ur_form, candidates)

\* ------------------------------------------------------------------------
\* Python strings: a str is the sequence of its Unicode code points

\* the code points of the value names
chars(word) ==
    CASE word = "sg"   -> <<115, 103>>
      [] word = "pl"   -> <<112, 108>>
      [] word = "nom"  -> <<110, 111, 109>>
      [] word = "acc"  -> <<97, 99, 99>>
      [] word = "dat"  -> <<100, 97, 116>>
      [] word = "neu"  -> <<110, 101, 117>>
      [] word = "mas"  -> <<109, 97, 115>>
      [] word = "fem"  -> <<102, 101, 109>>
      [] word = "part" -> <<112, 97, 114, 116>>
      [] word = "auth" -> <<97, 117, 116, 104>>
      [] word = "addr" -> <<97, 100, 100, 114>>

\* s < t on str: the first differing code point decides, a proper prefix
\* is smaller
RECURSIVE strLt(_, _)
strLt(s, t) ==
    IF t = <<>> THEN FALSE
    ELSE IF s = <<>> THEN TRUE
    ELSE IF Head(s) # Head(t) THEN Head(s) < Head(t)
    ELSE strLt(Tail(s), Tail(t))

\* NForm.val_to_string_dict; the empty value is the one character U+2205
NForm_val_to_string_dict(value) ==
    CASE value = {}                    -> <<8709>>
      [] value = {"sg"}                -> chars("sg")
      [] value = {"sg", "pl"}          -> chars("pl")
      [] value = {"nom"}               -> chars("nom")
      [] value = {"nom", "acc"}        -> chars("acc")
      [] value = {"nom", "acc", "dat"} -> chars("dat")
      [] value = {"neu", "mas", "fem"} -> chars("fem")
      [] value = {"neu", "mas"}        -> chars("mas")
      [] value = {"neu"}               -> chars("neu")

\* VForm.val_to_string_dict; the empty value is the three characters
\* U+00E2 U+02C6 U+2026 of the source file
VForm_val_to_string_dict(value) ==
    CASE value = {}               -> <<226, 710, 8230>>
      [] value = {"pl"}           -> chars("pl")
      [] value = {"part"}         -> chars("part")
      [] value = {"part", "auth"} -> chars("auth")
      [] value = {"part", "addr"} -> chars("addr")

\* a __repr__ of VForm that leaves the person out
repr_numberOnly(self) ==
    IF self.type = "NForm"
    THEN NForm_val_to_string_dict(self.number) \o <<46>>
         \o NForm_val_to_string_dict(self.case) \o <<46>>
         \o NForm_val_to_string_dict(self.gender)
    ELSE VForm_val_to_string_dict(self.number)

\* NForm.__repr__ "n.c.g" / VForm.__repr__ "n.p"
repr(self) ==
    IF self.type = "NForm"
    THEN NForm_val_to_string_dict(self.number) \o <<46>>
         \o NForm_val_to_string_dict(self.case) \o <<46>>
         \o NForm_val_to_string_dict(self.gender)
    ELSE VForm_val_to_string_dict(self.number) \o <<46>>
         \o VForm_val_to_string_dict(self.person)

\* ", ".join of the reprs of forms[i..]
RECURSIVE joinFrom(_, _)
joinFrom(forms, i) ==
    IF i > Len(forms) THEN <<>>
    ELSE (IF i > 1 THEN <<44, 32>> ELSE <<>>) \o repr(forms[i])
             \o joinFrom(forms, i + 1)

\* str(v) of a list of forms: "[a, b]"
strOfList(forms) == <<91>> \o joinFrom(forms, 1) \o <<93>>

\* ------------------------------------------------------------------------
\* sorted(temp_dict.items()): list.sort on a list shorter than 64, that is
\* count_run, the reversal of a descending run, then binarysort

\* (key, val) < (key, val) on tuples: the first two components that are
\* not == decide, by MorphForm.__lt__ on the key and by str < on the val
itemLt(a, b) ==
    IF ~ eq(a[1], b[1]) THEN lt(a[1], b[1])
    ELSE IF a[2] # b[2] THEN strLt(a[2], b[2])
    ELSE FALSE

\* count_run: the last index of the run that starts at xs[1], i being the
\* next index to test
RECURSIVE runEnd(_, _, _)
runEnd(xs, i, descending) ==
    IF i > Len(xs) THEN Len(xs)
    ELSE IF itemLt(xs[i], xs[i - 1]) = descending
         THEN runEnd(xs, i + 1, descending)
         ELSE i - 1

\* count_run: <<length of the first run, descending>>
count_run(xs) ==
    IF Len(xs) = 1 THEN <<1, FALSE>>
    ELSE <<runEnd(xs, 3, itemLt(xs[2], xs[1])), itemLt(xs[2], xs[1])>>

\* reverse_slice on xs[1..n]
reverse_slice(xs, n) ==
    [i \in 1..Len(xs) |-> IF i <= n THEN xs[n + 1 - i] ELSE xs[i]]

\* the do-while of binarysort: where pivot goes in xs[l..r-1]
RECURSIVE bisect(_, _, _, _)
bisect(xs, pivot, l, r) ==
    IF l >= r THEN l
    ELSE LET q == l + ((r - l) \div 2)
         IN  IF itemLt(pivot, xs[q]) THEN bisect(xs, pivot, l, q)
             ELSE bisect(xs, pivot, q + 1, r)

\* binarysort: xs[1..start-1] is sorted, insert xs[start..]
RECURSIVE binarysort(_, _)
binarysort(xs, start) ==
    IF start > Len(xs) THEN xs
    ELSE LET pivot == xs[start]
             l == bisect(xs, pivot, 1, start)
             moved == [i \in 1..Len(xs) |->
                          IF i < l \/ i > start THEN xs[i]
                          ELSE IF i = l THEN pivot
                          ELSE xs[i - 1]]
         IN  binarysort(moved, start + 1)

sorted(xs) ==
    IF Len(xs) < 2 THEN xs
    ELSE LET run == count_run(xs)
         IN  binarysort(IF run[2] THEN reverse_slice(xs, run[1]) ELSE xs,
                        run[1] + 1)

\* ------------------------------------------------------------------------
\* aba.py: getWinnerPartition, areSamePartitions

\* the keys of the dict winners in insertion order: ur_forms without the
\* later copies of a form
RECURSIVE dictKeysFrom(_, _, _)
dictKeysFrom(urs, i, keys) ==
    IF i > Len(urs) THEN keys
    ELSE dictKeysFrom(urs, i + 1,
                      IF \E j \in 1..Len(keys) : eq(keys[j], urs[i])
                      THEN keys ELSE Append(keys, urs[i]))

\* temp_dict.items(): the pairs of a key and str(otEval(rank, key, sr_forms))
tempItems(ranking, urs, srs) ==
    LET keys == dictKeysFrom(urs, 1, <<>>)
    IN  [i \in 1..Len(keys) |->
            <<keys[i], strOfList(otEval(ranking, keys[i], srs))>>]

\* the loop that fills res, a list of <<val, cell>> in insertion order
RECURSIVE resFrom(_, _, _)
resFrom(items, i, res) ==
    IF i > Len(items) THEN res
    ELSE LET key == items[i][1]
             val == items[i][2]
         IN  resFrom(items, i + 1,
                     IF \E j \in 1..Len(res) : res[j][1] = val
                     THEN [j \in 1..Len(res) |->
                              IF res[j][1] = val
                              THEN <<val, Append(res[j][2], key)>>
                              ELSE res[j]]
                     ELSE Append(res, <<val, <<key>> >>))

getWinnerPartition(ranking, urs, srs) ==
    LET res == resFrom(sorted(tempItems(ranking, urs, srs)), 1, <<>>)
    IN  [j \in 1..Len(res) |-> res[j][2]]


\* areSamePartitions that looks at the cells of part1 missing from part2
\* only
areSamePartitions_oneWay(part1, partB) ==
    LET s1 == {Range(part1[i]) : i \in 1..Len(part1)}
        s2 == {Range(partB[i]) : i \in 1..Len(partB)}
    IN  Cardinality(s1 \ s2) = 0

\* lines 387-389: s1, s2 are the sets of the cells as frozensets
areSamePartitions(part1, partB) ==
    LET s1 == {Range(part1[i]) : i \in 1..Len(part1)}
        s2 == {Range(partB[i]) : i \in 1..Len(partB)}
    IN  /\ Cardinality(s1 \ s2) = Cardinality(s2 \ s1)
        /\ Cardinality(s2 \ s1) = 0

\* ------------------------------------------------------------------------
\* aba.py: findVocabularyRankingPairs

\* line 461: the forms of the cells of ur_partition in one list
RECURSIVE flatten(_)
flatten(ur_partition) ==
    IF ur_partition = <<>> THEN <<>>
    ELSE Head(ur_partition) \o flatten(Tail(ur_partition))

\* it.combinations(pool, r): the r-member subsequences of pool, in the
\* lexicographic order of their positions
RECURSIVE combinations(_, _)
combinations(pool, r) ==
    IF r = 0 THEN << <<>> >>
    ELSE IF Len(pool) < r THEN <<>>
    ELSE LET with == combinations(Tail(pool), r - 1)
         IN  [i \in 1..Len(with) |-> <<Head(pool)>> \o with[i]]
                 \o combinations(Tail(pool), r)

\* the loop over the rankings that goes on after a good ranking whatever
\* stop says
RECURSIVE goodRanksFrom_noBreak(_, _, _, _, _, _, _)
goodRanksFrom_noBreak(rks, i, urs, vocab, ur_partition, stopping, good_ranks) ==
    IF i > Len(rks) THEN good_ranks
    ELSE IF areSamePartitions(getWinnerPartition(rks[i], urs, vocab),
                              ur_partition)
         THEN goodRanksFrom_noBreak(rks, i + 1, urs, vocab, ur_partition,
                                    stopping, Append(good_ranks, rks[i]))
         ELSE goodRanksFrom_noBreak(rks, i + 1, urs, vocab, ur_partition,
                                    stopping, good_ranks)

\* lines 471-476: the loop over the rankings from rankings[i] on;
\* printRanking(rank), the tuple of the names of the constraints, is what
\* a ranking is here
RECURSIVE goodRanksFrom(_, _, _, _, _, _, _)
goodRanksFrom(rks, i, urs, vocab, ur_partition, stopping, good_ranks) ==
    IF i > Len(rks) THEN good_ranks
    ELSE IF areSamePartitions(getWinnerPartition(rks[i], urs, vocab),
                              ur_partition)
         THEN IF stopping THEN Append(good_ranks, rks[i])
              ELSE goodRanksFrom(rks, i + 1, urs, vocab, ur_partition,
                                 stopping, Append(good_ranks, rks[i]))
         ELSE goodRanksFrom(rks, i + 1, urs, vocab, ur_partition,
                            stopping, good_ranks)

\* ------------------------------------------------------------------------
\* Calls of MorphForm.contains

InitContains ==
    /\ op = "contains"
    /\ pc = "call"
    /\ form1 \in AllForms
    /\ form2 \in AllForms
    /\ list_of_forms = <<>>
    /\ partition = <<>>
    /\ constr = None
    /\ features = <<>>
    /\ domain = <<>>
    /\ paths_traversed = <<>>
    /\ ret = None
    /\ raised = FALSE
    /\ NoEvalVars

\* form1.contains(form2)
Contains ==
    /\ op = "contains"
    /\ pc = "call"
    /\ pc' = "done"
    /\ raised' = containsRaises(form1, form2)
    /\ ret' = IF containsRaises(form1, form2) THEN None
              ELSE contains(form1, form2)
    /\ UNCHANGED <<op, form1, form2, list_of_forms, partition, constr,
                   features, domain, paths_traversed,
                   evalVars>>

NextContains == Contains

SpecContains == InitContains /\ [][NextContains]_vars

\* ------------------------------------------------------------------------
\* Calls of getPaths, one step per iteration of its while loop

\* the classes of forms the lists of one call are drawn from
PathUniverses == {SmallNForms, AllVForms}

InitPaths ==
    /\ op = "getPaths"
    /\ pc = "call"
    /\ \E U \in PathUniverses :
          /\ form1 \in U
          /\ form2 \in U
          /\ list_of_forms \in SeqsUpTo(U, MaxPool)
    /\ partition = <<>>
    /\ constr = None
    /\ features = <<>>
    /\ domain = <<>>
    /\ paths_traversed = <<>>
    /\ ret = None
    /\ raised = FALSE
    /\ NoEvalVars

\* lines 228-249: the two early returns, domain, the first paths_traversed
GetPathsEnter ==
    /\ op = "getPaths"
    /\ pc = "call"
    /\ IF ~ containment(form1, form2)
       THEN /\ pc' = "done"
            /\ ret' = <<>>
            /\ UNCHANGED <<domain, paths_traversed>>
       ELSE /\ domain' \in Orderings(domainSet(form1, form2, list_of_forms))
            /\ IF immediateContainment(form1, form2)
               THEN /\ pc' = "done"
                    /\ ret' = <<bottomOf(form1, form2), topOf(form1, form2)>>
                    /\ UNCHANGED paths_traversed
               ELSE /\ paths_traversed' = << <<bottomOf(form1, form2)>> >>
                    /\ pc' = "while"
                    /\ UNCHANGED ret
    /\ UNCHANGED <<op, form1, form2, list_of_forms, partition, constr,
                   features, raised,
                   evalVars>>

\* an iteration that starts over from the lower end, instead of leaving
\* the loop, when chains that have grown grow no more
GetPathsWhile_startsOver ==
    /\ op = "getPaths"
    /\ pc = "while"
    /\ LET extended == extendedFrom(paths_traversed, 1,
                                    topOf(form1, form2), domain)
       IN  IF extended = paths_traversed \/ Len(extended) = 0
           THEN IF paths_traversed = << <<bottomOf(form1, form2)>> >>
                THEN /\ pc' = "return"
                     /\ UNCHANGED paths_traversed
                ELSE /\ paths_traversed' = << <<bottomOf(form1, form2)>> >>
                     /\ pc' = "while"
           ELSE /\ paths_traversed' = extended
                /\ pc' = "while"
    /\ UNCHANGED <<op, form1, form2, list_of_forms, partition, constr,
                   features, domain, ret, raised,
                   evalVars>>

\* lines 250-261: one iteration of the while loop
GetPathsWhile ==
    /\ op = "getPaths"
    /\ pc = "while"
    /\ LET extended == extendedFrom(paths_traversed, 1,
                                    topOf(form1, form2), domain)
       IN  IF extended = paths_traversed \/ Len(extended) = 0
           THEN /\ pc' = "return"
                /\ UNCHANGED paths_traversed
           ELSE /\ paths_traversed' = extended
                /\ pc' = "while"
    /\ UNCHANGED <<op, form1, form2, list_of_forms, partition, constr,
                   features, domain, ret, raised,
                   evalVars>>

\* lines 262-265
GetPathsReturn ==
    /\ op = "getPaths"
    /\ pc = "return"
    /\ pc' = "done"
    /\ ret' = pathsReturned(paths_traversed, bottomOf(form1, form2))
    /\ UNCHANGED <<op, form1, form2, list_of_forms, partition, constr,
                   features, domain, paths_traversed, raised,
                   evalVars>>

NextPaths == GetPathsEnter \/ GetPathsWhile \/ GetPathsReturn

SpecPaths == InitPaths /\ [][NextPaths]_vars

\* what every step of getPaths changes: the place in the function or the
\* chains held
pathVars == <<pc, paths_traversed>>

\* the calls of getPaths that are followed to their end: over the four
\* NForms of the chain from the empty form to pl.nom and over the four
\* VForms without auth and addr, two chains side by side; ret holds the
\* empty list until the call returns
ChainNForms == {f \in TinyNForms : f.case = {} \/ f.number = {"sg", "pl"}}

RunUniverses == {ChainNForms, SmallVForms}

InitPathsRun ==
    /\ op = "getPaths"
    /\ pc = "call"
    /\ \E U \in RunUniverses :
          /\ form1 \in U
          /\ form2 \in U
          /\ list_of_forms \in SeqsUpTo(U, MaxPool)
    /\ partition = <<>>
    /\ constr = None
    /\ features = <<>>
    /\ domain = <<>>
    /\ paths_traversed = <<>>
    /\ ret = <<>>
    /\ raised = FALSE
    /\ NoEvalVars

\* a call of getPaths runs on: the interpreter takes the next step of the
\* function as long as there is one
SpecPathsFair ==
    InitPathsRun /\ [][NextPaths]_vars /\ WF_pathVars(NextPaths)

\* ------------------------------------------------------------------------
\* Calls of isBadCell

InitCell ==
    /\ op = "isBadCell"
    /\ pc = "call"
    /\ \E U \in PathUniverses : list_of_forms \in NoDupSeqsUpTo(U, MaxCell)
    /\ form1 = None
    /\ form2 = None
    /\ partition = <<>>
    /\ constr = None
    /\ features = <<>>
    /\ domain = <<>>
    /\ paths_traversed = <<>>
    /\ ret = None
    /\ raised = FALSE
    /\ NoEvalVars

\* isBadCell(list_of_forms)
IsBadCell ==
    /\ op = "isBadCell"
    /\ pc = "call"
    /\ ret' = isBadCell(list_of_forms)
    /\ pc' = "done"
    /\ UNCHANGED <<op, form1, form2, list_of_forms, partition, constr,
                   features, domain, paths_traversed, raised,
                   evalVars>>

NextCell == IsBadCell

SpecCell == InitCell /\ [][NextCell]_vars

\* ------------------------------------------------------------------------
\* Calls of isAba

InitAba ==
    /\ op = "isAba"
    /\ pc = "call"
    /\ partition \in SeqsUpTo(NoDupSeqsUpTo(SmallVForms, MaxAbaCell), MaxCells)
    /\ form1 = None
    /\ form2 = None
    /\ list_of_forms = <<>>
    /\ constr = None
    /\ features = <<>>
    /\ domain = <<>>
    /\ paths_traversed = <<>>
    /\ ret = None
    /\ raised = FALSE
    /\ NoEvalVars

\* isAba(partition)
IsAba ==
    /\ op = "isAba"
    /\ pc = "call"
    /\ ret' = isAba(partition)
    /\ pc' = "done"
    /\ UNCHANGED <<op, form1, form2, list_of_forms, partition, constr,
                   features, domain, paths_traversed, raised,
                   evalVars>>

NextAba == IsAba

SpecAba == InitAba /\ [][NextAba]_vars

\* ------------------------------------------------------------------------
\* Calls of DepOrMax

\* the feature lists of the constraints of nform.py over Number and Case
NFormFeatureLists == {<<"Number">>, <<"Case">>, <<"Number", "Case">>}

\* the feature lists of the constraints of vform.py
VFormFeatureLists == {<<"Person">>, <<"Number">>}

InitDepOrMax ==
    /\ op = "DepOrMax"
    /\ pc = "call"
    /\ constr \in {"DepSubroutine", "MaxSubroutine"}
    /\ \/ /\ features \in NFormFeatureLists
          /\ form1 \in TinyNForms
          /\ list_of_forms \in SeqsUpTo(TinyNForms, MaxCand)
       \/ /\ features \in VFormFeatureLists
          /\ form1 \in AllVForms
          /\ list_of_forms \in SeqsUpTo(AllVForms, MaxCand)
    /\ form2 = None
    /\ partition = <<>>
    /\ domain = <<>>
    /\ paths_traversed = <<>>
    /\ ret = None
    /\ raised = FALSE
    /\ NoEvalVars

\* DepOrMax(constr, features, form1, list_of_forms)
CallDepOrMax ==
    /\ op = "DepOrMax"
    /\ pc = "call"
    /\ ret' = DepOrMax(constr, features, form1, list_of_forms)
    /\ pc' = "done"
    /\ UNCHANGED <<op, form1, form2, list_of_forms, partition, constr,
                   features, domain, paths_traversed, raised,
                   evalVars>>

NextDepOrMax == CallDepOrMax

SpecDepOrMax == InitDepOrMax /\ [][NextDepOrMax]_vars

\* ------------------------------------------------------------------------
\* Calls of otEval(rank, form1, list_of_forms), one step per constraint

\* the variables of the first sections in a call that has none of them
NoPathVars ==
    /\ form2 = None
    /\ partition = <<>>
    /\ constr = None
    /\ features = <<>>
    /\ domain = <<>>
    /\ paths_traversed = <<>>

InitEval ==
    /\ op = "otEval"
    /\ pc = "for"
    /\ rank \in SeqsUpTo(Range(vform_constraints), MaxRank)
    /\ form1 \in SmallVForms
    /\ list_of_forms \in SeqsUpTo(SmallVForms, MaxEvalCand)
    /\ cands = list_of_forms
    /\ applied = 0
    /\ ret = None
    /\ raised = FALSE
    /\ NoPathVars
    /\ form_class = None
    /\ init_argv = <<>>
    /\ rankings = <<>>
    /\ part2 = <<>>
    /\ ur_forms = <<>>
    /\ stop = FALSE
    /\ NoFindVars

\* an iteration that calls the next constraint with more candidates than
\* one or none
OtEvalApply_noStop ==
    /\ op = "otEval"
    /\ pc = "for"
    /\ applied < Len(rank)
    /\ Len(cands) > 0
    /\ cands' = applyConstraint(rank[applied + 1], form1, cands)
    /\ applied' = applied + 1
    /\ UNCHANGED <<op, pc, form1, form2, list_of_forms, partition, constr,
                   features, domain, paths_traversed, ret, raised,
                   form_class, init_argv, rank, rankings, part2, ur_forms,
                   stop, findVars>>

\* lines 374-376: an iteration of the for loop that calls the constraint
OtEvalApply ==
    /\ op = "otEval"
    /\ pc = "for"
    /\ applied < Len(rank)
    /\ Len(cands) > 1
    /\ cands' = applyConstraint(rank[applied + 1], form1, cands)
    /\ applied' = applied + 1
    /\ UNCHANGED <<op, pc, form1, form2, list_of_forms, partition, constr,
                   features, domain, paths_traversed, ret, raised,
                   form_class, init_argv, rank, rankings, part2, ur_forms,
                   stop, findVars>>

\* lines 377-379: the break, or the end of rank, and the return
OtEvalReturn ==
    /\ op = "otEval"
    /\ pc = "for"
    /\ applied = Len(rank) \/ Len(cands) <= 1
    /\ ret' = cands
    /\ pc' = "done"
    /\ UNCHANGED <<op, form1, form2, list_of_forms, partition, constr,
                   features, domain, paths_traversed, raised, evalVars>>

NextEval == OtEvalApply \/ OtEvalReturn

SpecEval == InitEval /\ [][NextEval]_vars

\* ------------------------------------------------------------------------
\* Calls of getWinnerPartition: a ranking of the VForm constraints, a list
\* of underlying forms and a list of surface forms

InitWinnerPartition ==
    /\ op = "getWinnerPartition"
    /\ pc = "call"
    /\ rank \in RankingsUsed
    /\ ur_forms \in SeqsUpTo(SmallVForms, MaxUr)
    /\ list_of_forms \in SeqsUpTo(SmallVForms, MaxSr)
    /\ form1 = None
    /\ ret = None
    /\ raised = FALSE
    /\ NoPathVars
    /\ form_class = None
    /\ init_argv = <<>>
    /\ rankings = <<>>
    /\ cands = <<>>
    /\ applied = 0
    /\ part2 = <<>>
    /\ stop = FALSE
    /\ NoFindVars

\* lines 406-413, list_of_forms being sr_forms
GetWinnerPartition ==
    /\ op = "getWinnerPartition"
    /\ pc = "call"
    /\ ret' = getWinnerPartition(rank, ur_forms, list_of_forms)
    /\ pc' = "done"
    /\ UNCHANGED <<op, form1, form2, list_of_forms, partition, constr,
                   features, domain, paths_traversed, raised, evalVars>>

NextWinnerPartition == GetWinnerPartition

SpecWinnerPartition == InitWinnerPartition /\ [][NextWinnerPartition]_vars

\* ------------------------------------------------------------------------
\* Calls of areSamePartitions: two lists of cells over three VForms

PartitionForms == generateForms("VForm", {"pl", "addr"})

InitSamePartitions ==
    /\ op = "areSamePartitions"
    /\ pc = "call"
    /\ partition \in ListsOfCells(PartitionForms, MaxPartForms)
    /\ part2 \in ListsOfCells(PartitionForms, MaxPartForms)
    /\ form1 = None
    /\ form2 = None
    /\ list_of_forms = <<>>
    /\ constr = None
    /\ features = <<>>
    /\ domain = <<>>
    /\ paths_traversed = <<>>
    /\ ret = None
    /\ raised = FALSE
    /\ form_class = None
    /\ init_argv = <<>>
    /\ rank = <<>>
    /\ rankings = <<>>
    /\ cands = <<>>
    /\ applied = 0
    /\ ur_forms = <<>>
    /\ stop = FALSE
    /\ NoFindVars

\* areSamePartitions(partition, part2)
AreSamePartitions ==
    /\ op = "areSamePartitions"
    /\ pc = "call"
    /\ ret' = areSamePartitions(partition, part2)
    /\ pc' = "done"
    /\ UNCHANGED <<op, form1, form2, list_of_forms, partition, constr,
                   features, domain, paths_traversed, raised, evalVars>>

NextSamePartitions == AreSamePartitions

SpecSamePartitions == InitSamePartitions /\ [][NextSamePartitions]_vars

\* ------------------------------------------------------------------------
\* Calls of findVocabularyRankingPairs on VForm: a target partition of
\* different forms, a list of different rankings, the values to exclude
\* and stop

\* the lists of excluded values: they leave three forms and two forms
ExcludedUsed == {{"pl", "addr"}, {"part", "auth", "addr"}}

TargetPartitions ==
    {p \in ListsOfCells(SmallVForms, MaxTargetForms) :
        Len(flatten(p)) = Cardinality(Range(flatten(p)))}

InitFind ==
    /\ op = "findVocabularyRankingPairs"
    /\ pc = "call"
    /\ form_class = "VForm"
    /\ partition \in TargetPartitions
    /\ rankings \in NoDupSeqsUpTo(RankingsUsed, MaxRankings)
    /\ list_values_to_exclude \in ExcludedUsed
    /\ stop \in BOOLEAN
    /\ sforms = <<>>
    /\ vocab_counter = 1
    /\ success_pairs = <<>>
    /\ form1 = None
    /\ form2 = None
    /\ list_of_forms = <<>>
    /\ constr = None
    /\ features = <<>>
    /\ domain = <<>>
    /\ paths_traversed = <<>>
    /\ ret = None
    /\ raised = FALSE
    /\ init_argv = <<>>
    /\ rank = <<>>
    /\ cands = <<>>
    /\ applied = 0
    /\ part2 = <<>>
    /\ ur_forms = <<>>

\* line 462
vocab_list == combinations(sforms, Len(partition))

\* lines 460-466: generateForms builds the forms from the product of sets
\* of strings, whose order of iteration is any
FindGenerate ==
    /\ op = "findVocabularyRankingPairs"
    /\ pc = "call"
    /\ sforms' \in Orderings(generateForms(form_class, list_values_to_exclude))
    /\ ur_forms' = flatten(partition)
    /\ pc' = "for"
    /\ UNCHANGED <<op, form1, form2, list_of_forms, partition, constr,
                   features, domain, paths_traversed, ret, raised,
                   form_class, init_argv, rank, rankings, cands, applied,
                   part2, stop, list_values_to_exclude, vocab_counter,
                   success_pairs>>

\* lines 467-480: one vocabulary against the rankings
FindTestVocab ==
    /\ op = "findVocabularyRankingPairs"
    /\ pc = "for"
    /\ vocab_counter <= Len(vocab_list)
    /\ LET vocab == vocab_list[vocab_counter]
           good_ranks == goodRanksFrom(rankings, 1, ur_forms, vocab,
                                       partition, stop, <<>>)
       IN  success_pairs' = IF Len(good_ranks) > 0
                            THEN Append(success_pairs, <<vocab, good_ranks>>)
                            ELSE success_pairs
    /\ vocab_counter' = vocab_counter + 1
    /\ UNCHANGED <<op, pc, form1, form2, list_of_forms, partition, constr,
                   features, domain, paths_traversed, ret, raised,
                   form_class, init_argv, rank, rankings, cands, applied,
                   part2, ur_forms, stop, list_values_to_exclude, sforms>>

\* line 510, after the last vocabulary
FindReturn ==
    /\ op = "findVocabularyRankingPairs"
    /\ pc = "for"
    /\ vocab_counter > Len(vocab_list)
    /\ ret' = success_pairs
    /\ pc' = "done"
    /\ UNCHANGED <<op, form1, form2, list_of_forms, partition, constr,
                   features, domain, paths_traversed, raised, evalVars>>

NextFind == FindGenerate \/ FindTestVocab \/ FindReturn

SpecFind == InitFind /\ [][NextFind]_vars

\* ------------------------------------------------------------------------
\* Calls of the constructors NForm(*argv) and VForm(*argv)

\* the strings handed over: values of NForm, values of VForm, and a string
\* that is a value of neither
TokensUsed == {"zero", "sg", "pl", "nom", "part", "auth", "bogus"}

InitConstruct ==
    /\ op = "__init__"
    /\ pc = "call"
    /\ form_class \in {"NForm", "VForm"}
    /\ init_argv \in SeqsUpTo(TokensUsed, MaxArgs)
    /\ form1 = None
    /\ form2 = None
    /\ list_of_forms = <<>>
    /\ partition = <<>>
    /\ constr = None
    /\ features = <<>>
    /\ domain = <<>>
    /\ paths_traversed = <<>>
    /\ ret = None
    /\ raised = FALSE
    /\ rank = <<>>
    /\ rankings = <<>>
    /\ cands = <<>>
    /\ applied = 0
    /\ part2 = <<>>
    /\ ur_forms = <<>>
    /\ stop = FALSE
    /\ NoFindVars

\* form_class(*init_argv): the exception or the object
Construct ==
    /\ op = "__init__"
    /\ pc = "call"
    /\ raised' = NewRaises(form_class, init_argv)
    /\ ret' = IF NewRaises(form_class, init_argv) THEN None
              ELSE New(form_class, init_argv)
    /\ pc' = "done"
    /\ UNCHANGED <<op, form1, form2, list_of_forms, partition, constr,
                   features, domain, paths_traversed, evalVars>>

NextConstruct == Construct

SpecConstruct == InitConstruct /\ [][NextConstruct]_vars

\* ------------------------------------------------------------------------
\* Calls of contains, immediateContains and nonImmediateContains on two
\* forms of one type

InitImmediate ==
    /\ op = "immediateContains"
    /\ pc = "call"
    /\ \E U \in {AllNForms, AllVForms} : form1 \in U /\ form2 \in U
    /\ list_of_forms = <<>>
    /\ partition = <<>>
    /\ constr = None
    /\ features = <<>>
    /\ domain = <<>>
    /\ paths_traversed = <<>>
    /\ ret = None
    /\ raised = FALSE
    /\ NoEvalVars

\* ret: form1.contains(form2), form1.immediateContains(form2) and
\* form1.nonImmediateContains(form2)
ImmediateContains ==
    /\ op = "immediateContains"
    /\ pc = "call"
    /\ ret' = <<contains(form1, form2), immediateContains(form1, form2),
                nonImmediateContains(form1, form2)>>
    /\ pc' = "done"
    /\ UNCHANGED <<op, form1, form2, list_of_forms, partition, constr,
                   features, domain, paths_traversed, raised, evalVars>>

NextImmediate == ImmediateContains

SpecImmediate == InitImmediate /\ [][NextImmediate]_vars

\* ------------------------------------------------------------------------
\* Properties of MorphForm.contains

ContainsDone == op = "contains" /\ pc = "done"

\* the forms of the class of one form
FormsOfType(f) == IF f.type = "NForm" THEN AllNForms ELSE AllVForms

\* C1: for two forms of one class, A.contains(B) is true iff A differs
\* from B and every slot of A is a (non-strict) superset of the same slot
\* of B.
C1_ContainsIffSlotwiseSuperset ==
    (ContainsDone /\ form1.type = form2.type) =>
        /\ ~ raised
        /\ ret = (/\ form1 # form2
                  /\ \A i \in 1..Len(getValues(form1)) :
                        getValues(form2)[i] \subseteq getValues(form1)[i])

\* C1 witness: NForm('pl','nom').contains(NForm('sg','nom')) returned True
C1_Witness ==
    /\ ContainsDone
    /\ form1 = NForm(<<"pl", "nom">>)
    /\ form2 = NForm(<<"sg", "nom">>)
    /\ ret = TRUE

\* C2: over the forms of one class contains is a strict partial order:
\* never true of a form and itself, never true in both directions, and
\* transitive.
C2_StrictPartialOrder ==
    (ContainsDone /\ form1.type = form2.type) =>
        /\ (form1 = form2 => ret = FALSE)
        /\ (ret = TRUE => form1 # form2 /\ ~ contains(form2, form1))
        /\ (ret = TRUE =>
               \A C \in FormsOfType(form1) :
                  contains(form2, C) => contains(form1, C))

\* C2 witness: A contains B and B contains some C
C2_Witness ==
    /\ ContainsDone
    /\ form1.type = form2.type
    /\ ret = TRUE
    /\ \E C \in FormsOfType(form1) : contains(form2, C)

\* C3: contains between forms of two different classes raises instead of
\* returning a boolean.
C3_CrossTypeRaises ==
    (ContainsDone /\ form1.type # form2.type) => raised

\* ------------------------------------------------------------------------
\* Properties of getPaths

PathsDone == op = "getPaths" /\ pc = "done"

\* every slot of A is a superset of the same slot of B
SlotwiseSuperset(A, B) ==
    \A i \in 1..Len(getValues(A)) : getValues(B)[i] \subseteq getValues(A)[i]

\* the contained and the containing one of two forms in containment
LowerEnd(A, B) == IF SlotwiseSuperset(A, B) THEN B ELSE A

UpperEnd(A, B) == IF SlotwiseSuperset(A, B) THEN A ELSE B

\* path is a chain of immediate-containment steps that starts right above
\* lo and reaches hi
IsChainBetween(path, lo, hi) ==
    /\ Len(path) > 0
    /\ immediateContains(path[1], lo)
    /\ \A i \in 2..Len(path) : immediateContains(path[i], path[i - 1])
    /\ \/ path[Len(path)] = hi
       \/ immediateContains(hi, path[Len(path)])

\* C5: for two forms in non-immediate containment every returned path is
\* made of members of the pool and is a chain of immediate-containment
\* steps from the lower endpoint that reaches the upper endpoint.
C5_PathsAreChainsToTop ==
    (PathsDone /\ nonImmediateContainment(form1, form2)) =>
        \A k \in 1..Len(ret) :
            /\ Range(ret[k]) \subseteq Range(list_of_forms)
            /\ IsChainBetween(ret[k], LowerEnd(form1, form2),
                              UpperEnd(form1, form2))

\* C6: getPaths returns the empty list whenever neither form contains the
\* other (equal forms included), whatever the pool.
C6_NoContainmentNoPaths ==
    (PathsDone /\ ~ (/\ form1 # form2
                     /\ \/ SlotwiseSuperset(form1, form2)
                        \/ SlotwiseSuperset(form2, form1))) =>
        ret = <<>>

\* C6 witness: two incomparable forms and a non-empty pool
C6_Witness ==
    /\ PathsDone
    /\ form1 # form2
    /\ ~ SlotwiseSuperset(form1, form2)
    /\ ~ SlotwiseSuperset(form2, form1)
    /\ Len(list_of_forms) > 0
    /\ ret = <<>>

\* C7: for two forms in immediate containment getPaths returns a list
\* that holds exactly one path, the pair of the lower and the upper
\* endpoint.
C7_ImmediateOnePairPath ==
    (PathsDone /\ immediateContainment(form1, form2)) =>
        /\ Len(ret) = 1
        /\ ret[1] = <<LowerEnd(form1, form2), UpperEnd(form1, form2)>>

\* ------------------------------------------------------------------------
\* Properties of isBadCell and isAba

CellDone == op = "isBadCell" /\ pc = "done"

\* the members of S reached from the members of R by immediate-containment
\* steps that stay in S
RECURSIVE UpClosure(_, _)
UpClosure(R, S) ==
    LET R2 == R \cup {x \in S : \E y \in R : immediateContains(x, y)}
    IN  IF R2 = R THEN R ELSE UpClosure(R2, S)

\* some chain f = x0, x1, ..., xn = g of members of S, every x(i+1)
\* immediately containing x(i)
ChainWithin(f, g, S) == g \in UpClosure({f}, S)

\* C4: isBadCell is True iff two distinct members f, g of the cell, g
\* non-immediately containing f, are joined by no chain of
\* immediate-containment steps made of members of the cell.
C4_BadCellIffUnbridgedPair ==
    CellDone =>
        ret = (\E f \in Range(list_of_forms), g \in Range(list_of_forms) :
                  /\ f # g
                  /\ nonImmediateContains(g, f)
                  /\ ~ ChainWithin(f, g, Range(list_of_forms)))

\* C4 witness: a bad cell of three forms with a non-immediate pair that no
\* chain of the cell joins although getPaths returns a path for it
C4_Witness ==
    /\ CellDone
    /\ ret = TRUE
    /\ Len(list_of_forms) = 3
    /\ \E f \in Range(list_of_forms), g \in Range(list_of_forms) :
          /\ nonImmediateContains(g, f)
          /\ ~ ChainWithin(f, g, Range(list_of_forms))
          /\ Len(getPaths(f, g, list_of_forms)) > 0

AbaDone == op = "isAba" /\ pc = "done"

\* the indices of the cells with more than one member
MultiCells(part) == {i \in 1..Len(part) : Len(part[i]) > 1}

\* the least member of a non-empty set of integers
Least(S) == CHOOSE i \in S : \A j \in S : i <= j

C9_AbaIfAnyBadCell ==
    (AbaDone /\ \E i \in 1..Len(partition) : isBadCell(partition[i])) =>
        ret = TRUE

\* ------------------------------------------------------------------------
\* Properties of DepOrMax

DepOrMaxDone == op = "DepOrMax" /\ pc = "done"

\* Dep counts the tokens of sr missing from ur, Max those of ur missing
\* from sr
Violations(c, ur_value, sr_value) ==
    IF c = "DepSubroutine" THEN Cardinality(sr_value \ ur_value)
    ELSE Cardinality(ur_value \ sr_value)

\* the value of a form on a feature
ValueOn(f, key) ==
    CASE key = "Number" -> f.number
      [] key = "Case" -> f.case
      [] key = "Gender" -> f.gender
      [] key = "Person" -> f.person

RECURSIVE SumOver(_, _, _, _)
SumOver(c, feats, ur, cand) ==
    IF feats = <<>> THEN 0
    ELSE Violations(c, ValueOn(ur, Head(feats)), ValueOn(cand, Head(feats)))
             + SumOver(c, Tail(feats), ur, cand)

\* cand has the least total score of the candidates
IsOptimal(cand) ==
    \A i \in 1..Len(list_of_forms) :
        SumOver(constr, features, form1, cand)
            <= SumOver(constr, features, form1, list_of_forms[i])

\* C10: DepOrMax returns exactly the candidates whose total score is the
\* least total score of all candidates, in their original order: the empty
\* list for no candidate, every candidate when all scores tie.
C10_DepOrMaxKeepsMinima ==
    DepOrMaxDone => ret = SelectSeq(list_of_forms, IsOptimal)

\* C10 witness: two tied candidates are dropped for a later, strictly
\* better one that scores on two features
C10_Witness ==
    /\ DepOrMaxDone
    /\ Len(features) = 2
    /\ Len(list_of_forms) = 3
    /\ SumOver(constr, features, form1, list_of_forms[1])
         = SumOver(constr, features, form1, list_of_forms[2])
    /\ SumOver(constr, features, form1, list_of_forms[3])
         < SumOver(constr, features, form1, list_of_forms[2])
    /\ SumOver(constr, features, form1, list_of_forms[3]) > 1
    /\ ret = <<list_of_forms[3]>>

\* ------------------------------------------------------------------------
\* Properties of otEval

EvalDone == op = "otEval" /\ pc = "done"

\* the candidates left when the first k constraints of rank are applied
\* one after the other, each to the output of the one before
RECURSIVE Stage(_)
Stage(k) ==
    IF k = 0 THEN list_of_forms
    ELSE applyConstraint(rank[k], form1, Stage(k - 1))

\* the number of constraints after which at most one candidate is left,
\* or the length of rank
StopPoint ==
    CHOOSE k \in 0..Len(rank) :
        /\ k = Len(rank) \/ Len(Stage(k)) <= 1
        /\ \A j \in 0..(k - 1) : Len(Stage(j)) > 1

\* C11: otEval applies the constraints in ranking order, each to the
\* output of the one before, and calls no constraint once at most one
\* candidate is left or the ranking is exhausted; a list of one or no
\* candidate comes back unchanged, and the result is within the output of
\* the highest-ranked constraint when there were several candidates.
C11_EvalStopsAtOneCandidate ==
    EvalDone =>
        /\ applied = StopPoint
        /\ ret = Stage(StopPoint)
        /\ (Len(list_of_forms) <= 1 => ret = list_of_forms /\ applied = 0)
        /\ (Len(list_of_forms) > 1 /\ Len(rank) > 0 =>
              Range(ret) \subseteq
                  Range(applyConstraint(rank[1], form1, list_of_forms)))

\* C11 witness: three candidates, the first of two constraints leaves one
\* of them and the second is not called
C11_Witness ==
    /\ EvalDone
    /\ Len(list_of_forms) = 3
    /\ Len(rank) = 2
    /\ applied = 1
    /\ Len(ret) = 1

\* ------------------------------------------------------------------------
\* Properties of getWinnerPartition

PartitionDone == op = "getWinnerPartition" /\ pc = "done"

\* the cells of the result that hold the form u
CellsOf(u) == {i \in 1..Len(ret) : \E j \in 1..Len(ret[i]) : ret[i][j] = u}

\* the places of the result that hold the form u
PlacesOf(u) ==
    {<<i, j>> \in (1..Len(ret)) \X (1..MaxUr + 1) :
        j <= Len(ret[i]) /\ ret[i][j] = u}

\* the set of winners otEval gives the underlying form u
WinnerSet(u) == Range(otEval(rank, u, list_of_forms))

\* C12: the cells of getWinnerPartition partition the set of underlying
\* forms (every underlying form is at exactly one place of exactly one
\* cell, no cell is empty, no other form is in a cell), and two underlying
\* forms share a cell iff their otEval winner sets are equal as sets.
C12_WinnerPartitionGroupsByWinners ==
    PartitionDone =>
        /\ \A i \in 1..Len(ret) :
              Len(ret[i]) > 0 /\ Range(ret[i]) \subseteq Range(ur_forms)
        /\ \A u \in Range(ur_forms) : Cardinality(PlacesOf(u)) = 1
        /\ \A u, v \in Range(ur_forms) :
              CellsOf(u) = CellsOf(v) <=> WinnerSet(u) = WinnerSet(v)

\* C12 witness: three different underlying forms, one of them given twice
\* the winners of another, come back in two cells
C12_Witness ==
    /\ PartitionDone
    /\ Cardinality(Range(ur_forms)) = 3
    /\ Len(list_of_forms) = 2
    /\ Len(ret) = 2
    /\ \E i \in 1..2 : Len(ret[i]) = 2

\* the cells of a partition as sets, in the order of the partition
CellSets(part) == [i \in 1..Len(part) |-> Range(part[i])]

\* str of the winners of the first form of cell i of the result
WinnerString(i) == strOfList(otEval(rank, ret[i][1], list_of_forms))

\* C18: the order of the cells of getWinnerPartition is the same whatever
\* the order of the underlying forms in the input, and the cells appear in
\* ascending order of the string of their winner set.
C18_CellOrderByWinnerString ==
    PartitionDone =>
        /\ \A urs \in Orderings(Range(ur_forms)) :
              CellSets(getWinnerPartition(rank, urs, list_of_forms))
                  = CellSets(ret)
        /\ \A i \in 1..(Len(ret) - 1) :
              strLt(WinnerString(i), WinnerString(i + 1))

\* ------------------------------------------------------------------------
\* Properties of areSamePartitions

SamePartitionsDone == op = "areSamePartitions" /\ pc = "done"

\* every cell of p has, in q, a cell with the same members
EachCellIn(p, q) ==
    \A i \in 1..Len(p) : \E j \in 1..Len(q) :
        /\ \A k \in 1..Len(p[i]) : \E l \in 1..Len(q[j]) : p[i][k] = q[j][l]
        /\ \A l \in 1..Len(q[j]) : \E k \in 1..Len(p[i]) : p[i][k] = q[j][l]

\* C13: areSamePartitions(p1, p2) is true iff the cells of p1 and the
\* cells of p2, each cell taken as the set of its members, are the same
\* set of cells, whatever the order of the cells and of the members; it is
\* true of a partition and itself, and the same with the arguments
\* swapped.
C13_SamePartitionsIffSameCells ==
    SamePartitionsDone =>
        /\ ret <=> EachCellIn(partition, part2) /\ EachCellIn(part2, partition)
        /\ areSamePartitions(partition, partition)
        /\ areSamePartitions(part2, partition) = ret

\* C13 witness: two different lists with the same two cells, the cells in
\* another order and the members of a cell in another order
C13_Witness ==
    /\ SamePartitionsDone
    /\ ret = TRUE
    /\ Len(partition) = 2
    /\ Len(part2) = 2
    /\ Range(partition[1]) = Range(part2[2])
    /\ Len(partition[1]) = 2
    /\ partition[1] # part2[2]

\* ------------------------------------------------------------------------
\* Properties of findVocabularyRankingPairs

FindDone == op = "findVocabularyRankingPairs" /\ pc = "done"

\* the form f has the value named token on one of its features
UsesValue(f, token) ==
    \E i \in 1..Len(valuesList(f)) :
        valuesList(f)[i] = VForm_string_to_val_dict[token]

\* the forms of the type that use no excluded value
FindUniverse ==
    {f \in AllVForms : \A token \in list_values_to_exclude : ~ UsesValue(f, token)}

\* the ranking r makes the winner partition of the target forms over
\* vocab the target partition
Succeeds(r, vocab) ==
    LET wpart == getWinnerPartition(r, flatten(partition), vocab)
    IN  EachCellIn(wpart, partition) /\ EachCellIn(partition, wpart)

\* the positions in rankings of the rankings that succeed with vocab
GoodPositions(vocab) == {i \in 1..Len(rankings) : Succeeds(rankings[i], vocab)}

\* the members of the sequence s at the positions in P, in their order
RECURSIVE SubSeqAt(_, _, _)
SubSeqAt(s, P, i) ==
    IF i > Len(s) THEN <<>>
    ELSE (IF i \in P THEN <<s[i]>> ELSE <<>>) \o SubSeqAt(s, P, i + 1)

\* C14: findVocabularyRankingPairs returns normally, with one entry for
\* the vocabulary V iff V is made of len(target) different forms of the
\* universe (the forms of the type that use no excluded value) and some
\* supplied ranking makes the winner partition of the flattened target
\* over V the target partition; with stop the entry lists the first such
\* ranking in the supplied order only, without stop every such ranking.
C14_FindReportsSucceedingVocabularies ==
    FindDone =>
        /\ raised = FALSE
        /\ \A i \in 1..Len(ret) :
              LET vocab == ret[i][1]
              IN  /\ Range(vocab) \subseteq FindUniverse
                  /\ Len(vocab) = Len(partition)
                  /\ Cardinality(Range(vocab)) = Len(partition)
                  /\ GoodPositions(vocab) # {}
                  /\ ret[i][2] =
                        IF stop
                        THEN <<rankings[Least(GoodPositions(vocab))]>>
                        ELSE SubSeqAt(rankings, GoodPositions(vocab), 1)
                  /\ \A j \in 1..Len(ret) :
                        Range(ret[j][1]) = Range(vocab) => j = i
        /\ \A V \in SUBSET FindUniverse :
              (/\ Cardinality(V) = Len(partition)
               /\ \E vocab \in Orderings(V) : GoodPositions(vocab) # {})
                  => \E i \in 1..Len(ret) : Range(ret[i][1]) = V

\* C14 witness: a target of two cells, two rankings that both succeed with
\* a reported vocabulary, and stop, so that the entry lists the first only
C14_Witness ==
    /\ FindDone
    /\ stop
    /\ Len(partition) = 2
    /\ Len(rankings) = 2
    /\ \E i \in 1..Len(ret) :
          /\ GoodPositions(ret[i][1]) = {1, 2}
          /\ ret[i][2] = <<rankings[1]>>

\* ------------------------------------------------------------------------
\* Properties of the constructors

ConstructDone == op = "__init__" /\ pc = "done"

\* the value sets of the features of the class, the values that accepts,
\* and the most arguments it accepts
GroupsOf(class) ==
    IF class = "NForm" THEN Range(NForm_grouped_values)
    ELSE Range(VForm_grouped_values)

ValuesOf(class) ==
    IF class = "NForm" THEN NForm_all_values ELSE VForm_all_values

ArityOf(class) == IF class = "NForm" THEN 3 ELSE 2

\* two different non-zero values of one feature among the arguments
Conflict ==
    \E i, j \in 1..Len(init_argv) : \E group \in GroupsOf(form_class) :
        /\ init_argv[i] # init_argv[j]
        /\ init_argv[i] # "zero" /\ init_argv[j] # "zero"
        /\ init_argv[i] \in group /\ init_argv[j] \in group

\* C15: the constructor fails when the arguments hold two different
\* non-zero values of one feature, as it does for too many arguments and
\* for a string that is no value of the class.
C15_ConflictingValuesRaise ==
    ConstructDone =>
        /\ (Len(init_argv) > ArityOf(form_class) => raised)
        /\ ((\E i \in 1..Len(init_argv) :
                 init_argv[i] \notin ValuesOf(form_class)) => raised)
        /\ (Conflict => raised)

\* ------------------------------------------------------------------------
\* Properties of immediateContains and nonImmediateContains

ImmediateDone == op = "immediateContains" /\ pc = "done"

\* the names of the slots of a form
SlotsOf(f) ==
    IF f.type = "NForm" THEN {"number", "case", "gender"}
    ELSE {"number", "person"}

\* the registered special pairs: in a VForm, auth over the empty value and
\* addr over the empty value
SpecialPair(f, a, b) ==
    /\ f.type = "VForm"
    /\ a \in {{"part", "auth"}, {"part", "addr"}}
    /\ b = {}

\* what the slot adds to the difference of A and B
SlotDiff(A, B, slot) ==
    IF SpecialPair(A, A[slot], B[slot]) THEN 1
    ELSE Cardinality(A[slot] \ B[slot])

RECURSIVE SumSlots(_, _, _)
SumSlots(A, B, slots) ==
    IF slots = {} THEN 0
    ELSE LET slot == CHOOSE x \in slots : TRUE
         IN  SlotDiff(A, B, slot) + SumSlots(A, B, slots \ {slot})

TotalDifference(A, B) == SumSlots(A, B, SlotsOf(A))

\* C16: for forms A, B of one type, immediateContains(A, B) implies
\* contains(A, B) and not nonImmediateContains(A, B); when contains(A, B)
\* holds exactly one of the two holds; and immediateContains(A, B) holds
\* iff contains(A, B) and the total difference, a registered special pair
\* counting 1, is 1.
C16_ImmediateIffDifferenceOne ==
    ImmediateDone =>
        LET c  == ret[1]
            im == ret[2]
            ni == ret[3]
        IN  /\ im => c /\ ~ ni
            /\ c => (im # ni)
            /\ im <=> (c /\ TotalDifference(form1, form2) = 1)

\* C16 witness: auth over the empty person value, a special pair whose set
\* difference has two members, is immediate
C16_Witness ==
    /\ ImmediateDone
    /\ form1 = [type |-> "VForm", number |-> {"pl"}, person |-> {"part", "auth"}]
    /\ form2 = [type |-> "VForm", number |-> {"pl"}, person |-> {}]
    /\ ret = <<TRUE, TRUE, FALSE>>

\* ------------------------------------------------------------------------
\* Termination of getPaths

\* the last member of a path
Last(path) == path[Len(path)]

\* an iteration of the while loop that goes on: every chain it keeps is a
\* chain it had, extended by one form that properly contains its last one
ChainsGrow ==
    (pc = "while" /\ pc' = "while") =>
        \A i \in 1..Len(paths_traversed') :
            \E j \in 1..Len(paths_traversed) :
                /\ Len(paths_traversed'[i]) = Len(paths_traversed[j]) + 1
                /\ SubSeq(paths_traversed'[i], 1, Len(paths_traversed[j]))
                      = paths_traversed[j]
                /\ SlotwiseSuperset(Last(paths_traversed'[i]),
                                    Last(paths_traversed[j]))
                /\ Last(paths_traversed'[i]) # Last(paths_traversed[j])

\* C17: getPaths terminates for every pool and every pair of forms: the
\* while loop reaches its exit, every iteration before that extending
\* each chain by a form that is strictly higher in the containment order.
C17_GetPathsTerminates == <>(pc = "done") /\ [][ChainsGrow]_pathVars

\* C17 witness: a call that went through the while loop more than once and
\* came back with a chain of two forms between the two ends
C17_Witness ==
    /\ PathsDone
    /\ containment(form1, form2)
    /\ ~ immediateContainment(form1, form2)
    /\ Len(list_of_forms) = 2
    /\ form1.type = "NForm"
    /\ \E i \in 1..Len(ret) : Len(ret[i]) = 2

====
